---- MODULE Spec2Model ----
(***************************************************************************)
(* Commit Runner: the per-frame simulation of the two shipped variants.    *)
(*   variant "A" = src/game.js          (side-nudge collision, no charge)  *)
(*   variant "B" = src/unnamed/part_000 (penetration resolver, charge jump)*)
(*                                                                         *)
(* Units.  JavaScript numbers are modelled as exact rationals, scaled to   *)
(* integers so that every tick length given in whole milliseconds is       *)
(* exact:                                                                  *)
(*   time            1 ms                                                  *)
(*   position        1/PX px        (PX = 10000)                           *)
(*   velocity        1/VEL px/s     (VEL = 10)                             *)
(*   score           1/SCORE_UNIT points   (10 points/s  = 1 unit/ms)      *)
(*   jumpCharge      1/CHARGE_UNIT         (25 charge/s  = 1 unit/ms)      *)
(*   angle           1/ANGLE_UNIT degree   (360 deg/s    = 36 units/ms)    *)
(* Floating-point rounding is not modelled.                                *)
(***************************************************************************)
EXTENDS Integers, Sequences, FiniteSets, TLC

VARIABLES
    variant,      \* "A" or "B": which source file the scene runs
    rng,          \* the random tape: what Math.random() can return next
    now,          \* this.time.now (ms)
    key,          \* this.spaceKey: [isDown, justDown, justUp]
    isGameOver,
    score,
    highScore,
    cookie,       \* the number in the cookie commitRunnerHighScore, or Null
    worldX,
    jumpCharge,
    jump,         \* jump fields of the scene (see JumpInit)
    player,       \* this.player (see PlayerInit)
    gen,          \* column-generation fields of the scene (see GenReset)
    columns,      \* live columns in creation order: <<[x, h, id], ...>>,
                  \* id = the column's number in its session
    pc,           \* position inside create()/restartGame() (SpecGen only)
    hist,         \* history of the running session (see HistInit)
    budget        \* inputs still allowed: [keys, restarts]

vars == <<variant, rng, now, key, isGameOver, score, highScore, cookie, worldX,
          jumpCharge, jump, player, gen, columns, pc, hist, budget>>

----------------------------------------------------------------------------
(* Bounds of the model *)

\* config.width is 800 in the source; the model runs a narrower viewport
ScreenWidth == 150
\* Math.random() is modelled as u / RandDen, u \in 0 .. RandDen-1
RandDen == 24
\* sessions started by restartGame() that are followed
MaxRestarts == 1
\* the length of an ordinary frame, of a frame after a stall, and the time at
\* which create() runs, in milliseconds
TickMs == 50
LagMs == 1000
BootMs == 1000
\* how long a run of the game plays (stalls not counted), and how many
\* irregular frames (a stall, or a frame of zero length) and presses of the
\* space key it has
MaxPlayMs == 500
MaxOddTicks == 1
MaxKeyPresses == 2
\* how long a run of SpecHold and of SpecLeap plays
MaxHoldMs == 550
MaxLeapMs == 2100
\* how long a run of SpecAir plays and how many presses of the key it has
MaxAirMs == 600
MaxAirPresses == 3
\* how long a run of SpecCliff plays
MaxCliffMs == 600
\* how long a run of SpecShove plays
MaxShoveMs == 400
\* how many airborne frames a landing follows in SpecAlign
MaxAirFrames == 20
\* how long the game runs when it is left alone
MaxRideMs == 2500
\* the length of the random tape of the game left alone
TapeLen == 8
\* the high score a cookie left by an earlier visit holds (points)
SavedHighScore == 12
\* generateColumn calls followed per session in SpecGen
MaxGenColumns == 36
\* score added between two scrollWorld calls in SpecGen (1/SCORE_UNIT points)
GenScoreStep == 200
\* score cap in SpecGen (1/SCORE_UNIT points)
MaxGenScore == 400

----------------------------------------------------------------------------
(* Program constants *)

TILE_SIZE == 13
GAP == 2
ROWS == 7
TILE_FULL_SIZE == 15
SCREEN_HEIGHT == 300
SCROLL_SPEED == 120
JUMP_VELOCITY == -400
GRAVITY == 1000
PLAYER_START_X == 150
JUMP_CHARGE_MAX == 100
JUMP_CHARGE_COST == 50
JUMP_CHARGE_RATE == 25
SCORE_RATE == 10
RAMP_UP_COLUMNS == 30
CHARGE_JUMP_MAX_TIME_MS == 1500
CHARGE_JUMP_MIN_VELOCITY == -400
CHARGE_JUMP_MAX_VELOCITY == -700
CHARGE_JUMP_HORIZONTAL_VELOCITY == 150
\* CHARGE_JUMP_SQUASH_HEIGHT = 0.1 = SQUASH_NUM / SQUASH_DEN
SQUASH_NUM == 1
SQUASH_DEN == 10
JUMP_BUFFER_WINDOW == 100
GRACE_MS == 100
HOLD_THRESHOLD_MS == 150
ROTATION_SPEED == 720
DIFFICULTY_STEP == 200

\* scale factors of the integer encoding
PX == 100 * 100
VEL == 2 * 5
SCORE_UNIT == 1000 \div SCORE_RATE
CHARGE_UNIT == 1000 \div JUMP_CHARGE_RATE
ANGLE_UNIT == 10 * 10

\* the value of a field that was never assigned, and of arithmetic on it
NaN == 0 - 999
\* null
Null == 0 - 1

Min(a, b) == IF a <= b THEN a ELSE b
Max(a, b) == IF a >= b THEN a ELSE b
Abs(a) == IF a < 0 THEN 0 - a ELSE a

\* JavaScript comparisons and arithmetic on possibly-undefined numbers
JsLt(a, b) == a # NaN /\ b # NaN /\ a < b
JsGt(a, b) == a # NaN /\ b # NaN /\ a > b
JsInc(a) == IF a = NaN THEN NaN ELSE a + 1
JsDec(a) == IF a = NaN THEN NaN ELSE a - 1

\* Math.ceil(a / b) for a >= 0, b > 0
CeilDiv(a, b) == (a + b - 1) \div b

----------------------------------------------------------------------------
(* Random draws *)

\* The random source is a tape of sets of numerators over RandDen, read
\* cyclically: each call of Math.random() returns u / RandDen for some u in
\* the tape's head and moves the tape on by one.

\* Phaser.Math.Between(lo, hi) = Math.floor(Math.random() * (hi - lo + 1) + lo):
\* the values [v] it can return with the tape [r] each leaves
Between(r, lo, hi) ==
    { [ v |-> lo + (u * (hi - lo + 1)) \div RandDen, r |-> Tail(r) \o << Head(r) >> ]
      : u \in Head(r) }

----------------------------------------------------------------------------
(* Column generation *)

\* the generation fields as create() (after its last line) and restartGame()
\* (before regenerating) set them
GenReset(v) ==
    [ consecutiveEmptyColumns |-> 0,
      lastColumnX |-> 0,
      totalColumnsGenerated |-> 0,
      patternColumnsRemaining |-> 0,
      patternHeight |-> 0,
      previousColumnHeight |-> IF v = "B" THEN 7 ELSE NaN ]

\* the generation fields before create() has assigned any of them
GenUndefined ==
    [ consecutiveEmptyColumns |-> NaN,
      lastColumnX |-> NaN,
      totalColumnsGenerated |-> NaN,
      patternColumnsRemaining |-> NaN,
      patternHeight |-> NaN,
      previousColumnHeight |-> NaN ]

\* a difficulty that stays at its first level
difficultyLevelFlat(s) == 0

\* Math.floor(this.score / 200)
difficultyLevel(s) == s \div (DIFFICULTY_STEP * SCORE_UNIT)

maxHeightDiff(s) == 2 + difficultyLevel(s)

patternMaxFreq(s) == 12 + difficultyLevel(s) * 2

\* the clamp without Math.max(0, ...)
ClampHeightNoFloor(prev, md) ==
    IF prev = NaN THEN NaN ELSE Min(7, Min(prev - md, prev + md))

\* Math.max(0, Math.min(7, prev - maxDiff, prev + maxDiff))
ClampHeight(prev, md) ==
    IF prev = NaN THEN NaN ELSE Max(0, Min(7, Min(prev - md, prev + md)))

\* Math.abs(height - prev) > maxDiff
TooSteep(h, prev, md) == prev # NaN /\ Abs(h - prev) > md

\* a draw loop that gives up one draw later
RECURSIVE HeightDrawLateB(_, _, _, _)
HeightDrawLateB(attempts, prev, md, r) ==
    LET a == attempts + 1
        draws == Between(r, 0, 7)
        steep == { d \in draws : TooSteep(d.v, prev, md) }
    IN  IF a > 11
        THEN { [ v |-> ClampHeight(prev, md), r |-> d.r, clamped |-> TRUE,
                 draws |-> a ]
               : d \in draws }
        ELSE { [ v |-> d.v, r |-> d.r, clamped |-> FALSE, draws |-> a ]
               : d \in draws \ steep }
             \cup UNION { HeightDrawLateB(a, prev, md, r2) : r2 \in { d.r : d \in steep } }

\* variant B's do-while draw: the heights [v] it can end with, the tape [r]
\* whether the height is the clamp's and how many draws the loop has made,
\* after `attempts` draws have been made
RECURSIVE HeightDrawB(_, _, _, _)
HeightDrawB(attempts, prev, md, r) ==
    LET a == attempts + 1
        draws == Between(r, 0, 7)
        steep == { d \in draws : TooSteep(d.v, prev, md) }
    IN  IF a > 10
        THEN { [ v |-> ClampHeight(prev, md), r |-> d.r, clamped |-> TRUE,
                 draws |-> a ]
               : d \in draws }
        ELSE { [ v |-> d.v, r |-> d.r, clamped |-> FALSE, draws |-> a ]
               : d \in draws \ steep }
             \cup UNION { HeightDrawB(a, prev, md, r2) : r2 \in { d.r : d \in steep } }

\* the empty-column rule applied to a fresh draw d with redraws up to hi:
\* the heights [v] with the counter [c], the tape [r] and whether the height
\* was drawn again
EmptyRule(g, d, hi) ==
    IF d.v = 0
    THEN LET c == JsInc(g.consecutiveEmptyColumns)
         IN  IF JsGt(c, 2)
             THEN { [ v |-> d2.v, c |-> 0, r |-> d2.r, redrawn |-> TRUE ]
                    : d2 \in Between(d.r, 1, hi) }
             ELSE { [ v |-> 0, c |-> c, r |-> d.r, redrawn |-> FALSE ] }
    ELSE { [ v |-> d.v, c |-> 0, r |-> d.r, redrawn |-> FALSE ] }

\* generateColumn of src/game.js: the set of [g, h, r] it can end with
generateColumnA(g, r) ==
    IF JsLt(g.totalColumnsGenerated, RAMP_UP_COLUMNS)
    THEN { [ g |-> [g EXCEPT !.totalColumnsGenerated = JsInc(@)], h |-> 7, r |-> r,
             redrawn |-> FALSE, clamped |-> FALSE, level |-> Null, draws |-> 0 ] }
    ELSE IF JsGt(g.patternColumnsRemaining, 0)
    THEN { [ g |-> [g EXCEPT !.patternColumnsRemaining = JsDec(@),
                             !.totalColumnsGenerated = JsInc(@)],
             h |-> g.patternHeight, r |-> r, redrawn |-> FALSE, clamped |-> FALSE,
             level |-> Null, draws |-> 0 ] }
    ELSE UNION { UNION { {
            [ g |-> [g EXCEPT
                       !.consecutiveEmptyColumns = hc.c,
                       !.patternHeight =
                           IF patternChance.v <= 5 \/ patternChance.v = 15
                           THEN hc.v ELSE @,
                       !.patternColumnsRemaining =
                           IF patternChance.v <= 5 THEN 1
                           ELSE IF patternChance.v = 15 THEN 2 ELSE @,
                       !.totalColumnsGenerated = JsInc(@)],
              h |-> hc.v, r |-> patternChance.r,
              redrawn |-> hc.redrawn, clamped |-> FALSE, level |-> Null,
              draws |-> 1 ]
            : patternChance \in Between(hc.r, 1, 15) }
            : hc \in EmptyRule(g, h0, 7) }
            : h0 \in Between(r, 0, 7) }

\* generateColumn of src/unnamed/part_000 at score s: the set of [g, h, r]
generateColumnB(g, s, r) ==
    IF JsLt(g.totalColumnsGenerated, RAMP_UP_COLUMNS)
    THEN { [ g |-> [g EXCEPT !.previousColumnHeight = 7,
                             !.totalColumnsGenerated = JsInc(@)],
             h |-> 7, r |-> r, redrawn |-> FALSE, clamped |-> FALSE,
             level |-> difficultyLevel(s), draws |-> 0 ] }
    ELSE IF JsGt(g.patternColumnsRemaining, 0)
    THEN { [ g |-> [g EXCEPT !.patternColumnsRemaining = JsDec(@),
                             !.previousColumnHeight = g.patternHeight,
                             !.totalColumnsGenerated = JsInc(@)],
             h |-> g.patternHeight, r |-> r, redrawn |-> FALSE, clamped |-> FALSE,
             level |-> difficultyLevel(s), draws |-> 0 ] }
    ELSE LET md == maxHeightDiff(s)
             prev == g.previousColumnHeight
         IN  UNION { UNION { {
            [ g |-> [g EXCEPT
                       !.consecutiveEmptyColumns = hc.c,
                       !.patternHeight = hc.v,
                       !.patternColumnsRemaining =
                           IF patternChance.v <= 3 THEN 2
                           ELSE IF patternChance.v = patternMaxFreq(s) THEN 3
                           ELSE 1,
                       !.previousColumnHeight = hc.v,
                       !.totalColumnsGenerated = JsInc(@)],
              h |-> hc.v, r |-> patternChance.r,
              redrawn |-> hc.redrawn, clamped |-> h0.clamped,
              level |-> difficultyLevel(s), draws |-> h0.draws ]
            : patternChance \in Between(hc.r, 1, patternMaxFreq(s)) }
            : hc \in EmptyRule(g, h0, Min(7, prev + md)) }
            : h0 \in HeightDrawB(0, prev, md, r) }

generateColumn(v, g, s, r) ==
    IF v = "A" THEN generateColumnA(g, r) ELSE generateColumnB(g, s, r)

\* Math.ceil(screenWidth / GRID.TILE_FULL_SIZE) + 5
numColumns == CeilDiv(ScreenWidth, TILE_FULL_SIZE) + 5

----------------------------------------------------------------------------
(* History of the running session: what generateColumn has produced *)

HistInit ==
    [ n |-> 0, last |-> NaN, zeros |-> 0, restarted |-> FALSE, restarts |-> 0,
      event |-> "none", holdFrom |-> Null, chargeMs |-> 0, chargeAfter |-> 0,
      redrawn |-> FALSE, clamped |-> FALSE, level |-> Null, tapReady |-> FALSE,
      pressAt |-> Null, paired |-> FALSE, draws |-> 0, airJumps |-> 0 ]

\* what handleJump did in the frame: the branch it took (event), the charge
\* time a launch used, the jump charge it left, and how many double jumps
\* the player has made since it was last on the ground (counted up to 2)
HistJump(s, e) ==
    [s EXCEPT !.hist.event = e,
              !.hist.chargeAfter = s.jumpCharge,
              !.hist.airJumps = IF e = "double" THEN Min(@ + 1, 2)
                                ELSE IF s.player.isGrounded \/ e \in { "jump", "tap", "launch" }
                                THEN 0 ELSE @]

\* what generateColumn did: the height o.h, whether it came from the forced
\* redraw or from the clamp, the difficulty level it computed, how many
\* heights its draw loop drew, and whether the column before has that height
HistColumn(hs, o) ==
    [hs EXCEPT !.n = @ + 1, !.last = o.h,
               !.paired = hs.n >= 1 /\ o.h = hs.last,
               !.draws = o.draws,
               !.zeros = IF o.h = 0 THEN Min(@ + 1, 3) ELSE 0,
               !.redrawn = o.redrawn, !.clamped = o.clamped, !.level = o.level]

----------------------------------------------------------------------------
(* The scene: every mutable field the simulation reads or writes, as one   *)
(* record threaded through the methods in the order update() calls them    *)

Scene ==
    [ now |-> now, key |-> key, isGameOver |-> isGameOver, score |-> score,
      highScore |-> highScore, cookie |-> cookie, worldX |-> worldX,
      jumpCharge |-> jumpCharge,
      jump |-> jump, player |-> player, gen |-> gen, columns |-> columns,
      hist |-> hist, rng |-> rng ]

\* the jump fields as create() sets them
JumpInit ==
    [ isChargingJump |-> FALSE,
      chargeJumpTime |-> 0,
      jumpHoldStartTime |-> Null,
      lastGroundedTime |-> 0,
      jumpBufferTime |-> 0,
      jumpsUsed |-> 0,
      isSliding |-> FALSE ]

\* the player as createPlayer() makes it
PlayerInit ==
    [ x |-> PLAYER_START_X * PX,
      y |-> (SCREEN_HEIGHT \div 2) * PX,
      vx |-> 0,
      vy |-> 0,
      angle |-> 0,
      isGrounded |-> FALSE,
      isRotating |-> FALSE,
      canDoubleJump |-> FALSE,
      displayHeight |-> TILE_SIZE * PX ]

KeyInit == [ isDown |-> FALSE, justDown |-> FALSE, justUp |-> FALSE ]

HALF_TILE == (TILE_SIZE * PX) \div 2

\* y of the tile in row `row` (origin top-left): bottomY - row * TILE_FULL_SIZE
TileY(row) == (SCREEN_HEIGHT - TILE_SIZE) * PX - row * TILE_FULL_SIZE * PX

\* every tile of the live columns, background tiles included
allTiles(cols) ==
    [ k \in 1 .. Len(cols) * ROWS |->
        LET c == cols[((k - 1) \div ROWS) + 1]
            row == (k - 1) % ROWS
        IN  [ x |-> c.x, y |-> TileY(row), isObstacle |-> row < c.h ] ]

\* the obstacle tiles of the live columns in greenObstacles order:
\* column by column, rows from the bottom up
greenObstacles(cols) ==
    SelectSeq([ k \in 1 .. Len(cols) * ROWS |->
                  LET c == cols[((k - 1) \div ROWS) + 1]
                      row == (k - 1) % ROWS
                  IN  [ x |-> c.x, y |-> TileY(row), isObstacle |-> row < c.h ] ],
              LAMBDA tile : tile.isObstacle)

----------------------------------------------------------------------------
(* Game over and restart *)

\* Math.floor(this.score)
FloorScore(s) == s \div SCORE_UNIT

\* loadHighScore(): parseInt(cookie, 10) || 0, or 0 without a cookie
loadHighScore(c) == IF c = Null THEN 0 ELSE c

\* a game over that never touches the high score
triggerGameOverNoRecord(s) ==
    [s EXCEPT !.isGameOver = TRUE,
              !.player.vx = 0,
              !.player.vy = 0]

\* triggerGameOver(); saveHighScore() writes highScore.toString() to the cookie
triggerGameOver(s) ==
    [s EXCEPT !.isGameOver = TRUE,
              !.highScore = IF FloorScore(s.score) > @ THEN FloorScore(s.score) ELSE @,
              !.cookie = IF FloorScore(s.score) > s.highScore
                         THEN FloorScore(s.score) ELSE @,
              !.player.vx = 0,
              !.player.vy = 0]

\* generateInitialColumns from loop index i on: the scenes it can end with
RECURSIVE generateInitialColumns(_, _, _)
generateInitialColumns(v, s, i) ==
    IF i >= numColumns THEN { s }
    ELSE UNION { generateInitialColumns(v,
                    [s EXCEPT !.gen = [o.g EXCEPT !.lastColumnX = i * TILE_FULL_SIZE * PX],
                              !.columns = Append(@, [ x |-> i * TILE_FULL_SIZE * PX, h |-> o.h,
                                                      id |-> s.hist.n + 1 ]),
                              !.hist = HistColumn(@, o),
                              !.rng = o.r],
                    i + 1)
                 : o \in generateColumn(v, s.gen, s.score, s.rng) }

\* the fields restartGame() assigns before it regenerates the columns
RestartFields(v, s) ==
    [s EXCEPT !.columns = << >>,
              !.isGameOver = FALSE,
              !.score = 0,
              !.worldX = 0,
              !.gen = GenReset(v),
              !.jumpCharge = JUMP_CHARGE_MAX * CHARGE_UNIT,
              !.jump.jumpsUsed = 0,
              !.jump.isChargingJump = IF v = "B" THEN FALSE ELSE @,
              !.jump.chargeJumpTime = IF v = "B" THEN 0 ELSE @,
              !.jump.jumpBufferTime = IF v = "B" THEN 0 ELSE @,
              !.jump.isSliding = IF v = "B" THEN FALSE ELSE @,
              !.player.x = PLAYER_START_X * PX,
              !.player.y = (SCREEN_HEIGHT \div 2) * PX,
              !.player.vx = 0,
              !.player.vy = 0,
              !.player.angle = 0,
              !.player.isRotating = FALSE,
              !.player.displayHeight = IF v = "B" THEN TILE_SIZE * PX ELSE @,
              !.player.canDoubleJump = FALSE,
              !.hist = [HistInit EXCEPT !.restarted = TRUE, !.event = "restart",
                                        !.restarts = s.hist.restarts + 1,
                                        !.holdFrom = s.hist.holdFrom,
                                        !.pressAt = s.hist.pressAt]]

restartGame(v, s) == generateInitialColumns(v, RestartFields(v, s), 0)

\* the scene create() starts from: the high score loaded, nothing generated,
\* generation fields unassigned
CreateFields(t, r, c) ==
    [ rng |-> r, now |-> t, key |-> KeyInit, isGameOver |-> FALSE, score |-> 0,
      highScore |-> loadHighScore(c), cookie |-> c, worldX |-> 0,
      jumpCharge |-> JUMP_CHARGE_MAX * CHARGE_UNIT,
      jump |-> JumpInit, player |-> PlayerInit, gen |-> GenUndefined,
      columns |-> << >>, hist |-> HistInit ]

\* create(): the initial columns are generated before the generation fields
\* are assigned, which happens in its last lines
create(v, t, r, c) ==
    { [s EXCEPT !.gen = GenReset(v)]
      : s \in generateInitialColumns(v, CreateFields(t, r, c), 0) }

----------------------------------------------------------------------------
(* The host's physics step (Phaser arcade body): vy += g*dt, y += vy*dt,   *)
(* x += vx*dt, run before update() while the session is Running            *)

PhysicsStep(s, dt) ==
    LET vy1 == s.player.vy + (GRAVITY * VEL * dt) \div 1000
    IN  [s EXCEPT !.player.vy = vy1,
                  !.player.y = @ + vy1 * dt * (PX \div (VEL * 1000)),
                  !.player.x = @ + s.player.vx * dt * (PX \div (VEL * 1000))]

----------------------------------------------------------------------------
(* Variant A: the overlap callback *)

\* a callback that ends the game at the first push
handleCollisionEager(s, ob) ==
    IF s.isGameOver THEN s
    ELSE IF s.player.y + HALF_TILE > ob.y + 3 * PX /\ s.player.x + HALF_TILE > ob.x
    THEN triggerGameOver([s EXCEPT !.player.x = @ - 2 * PX])
    ELSE s

\* a callback that also pushes a player that is coming down on top of a tile
handleCollisionOnTop(s, ob) ==
    IF s.isGameOver THEN s
    ELSE IF s.player.x + HALF_TILE > ob.x
    THEN LET s1 == [s EXCEPT !.player.x = @ - 2 * PX]
         IN  IF s1.player.x < (0 - TILE_SIZE) * PX
             THEN triggerGameOver(s1) ELSE s1
    ELSE s

\* a callback that pushes the player 2 px to the right, away from the left
\* edge
handleCollisionForward(s, ob) ==
    IF s.isGameOver THEN s
    ELSE IF s.player.y + HALF_TILE > ob.y + 3 * PX /\ s.player.x + HALF_TILE > ob.x
    THEN LET s1 == [s EXCEPT !.player.x = @ + 2 * PX]
         IN  IF s1.player.x < (0 - TILE_SIZE) * PX
             THEN triggerGameOver(s1) ELSE s1
    ELSE s

\* handleCollision(player, obstacle) of src/game.js; variant B never
\* registers its copy
handleCollision(s, ob) ==
    IF s.isGameOver THEN s
    ELSE LET playerBottom == s.player.y + HALF_TILE
             playerRight == s.player.x + HALF_TILE
         IN  IF playerBottom > ob.y + 3 * PX /\ playerRight > ob.x
             THEN LET s1 == [s EXCEPT !.player.x = @ - 2 * PX]
                  IN  IF s1.player.x < (0 - TILE_SIZE) * PX
                      THEN triggerGameOver(s1) ELSE s1
             ELSE s

\* the host's overlap test of the player's body against a tile's body
BodiesIntersect(p, ob) ==
    ~ ( p.x + HALF_TILE <= ob.x \/ p.y + HALF_TILE <= ob.y
        \/ p.x - HALF_TILE >= ob.x + TILE_SIZE * PX
        \/ p.y - HALF_TILE >= ob.y + TILE_SIZE * PX )

\* the host calls handleCollision once for every obstacle tile whose body
\* overlaps the player's body as the physics step left it
RECURSIVE OverlapCallbacks(_, _, _)
OverlapCallbacks(s, body, obs) ==
    LET hit == SelectSeq(obs, LAMBDA ob : BodiesIntersect(body, ob))
    IN  IF hit = << >> THEN s
        ELSE LET s1 == CHOOSE q \in { handleCollision(s, Head(hit)) } : TRUE
             IN  OverlapCallbacks(s1, body, Tail(hit))

----------------------------------------------------------------------------
(* checkGrounded *)

\* src/game.js: the tops of the tiles the player counts as standing on
StandingTopsA(p, obs) ==
    LET playerBottom == p.y + HALF_TILE
        playerLeft == p.x - HALF_TILE
        playerRight == p.x + HALF_TILE
    IN  { obs[i].y : i \in { j \in DOMAIN obs :
            /\ playerBottom >= obs[j].y
            /\ playerBottom <= obs[j].y + 10 * PX
            /\ playerRight > obs[j].x + 2 * PX
            /\ playerLeft < obs[j].x + TILE_SIZE * PX - 2 * PX } }

SetMin(S) == CHOOSE m \in S : \A e \in S : m <= e

checkGroundedA(s) ==
    LET tops == { t \in StandingTopsA(s.player, greenObstacles(s.columns)) :
                    t < SCREEN_HEIGHT * PX }
        wasGrounded == s.player.isGrounded
        s1 == IF tops # {} /\ s.player.vy >= 0
              THEN [s EXCEPT !.player.y = SetMin(tops) - HALF_TILE,
                             !.player.vy = 0,
                             !.player.isGrounded = TRUE,
                             !.player.canDoubleJump = IF wasGrounded THEN @ ELSE FALSE,
                             !.player.isRotating = IF wasGrounded THEN @ ELSE TRUE]
              ELSE [s EXCEPT !.player.isGrounded = FALSE]
    IN  IF s1.player.y > (SCREEN_HEIGHT + 50) * PX THEN triggerGameOver(s1) ELSE s1

\* src/unnamed/part_000: one pass of the loop body over obstacle ob.
\* r = [x, y, vx, vy, standing, highest]; the player's bounds are those
\* computed before the loop (p0), the velocities are read live
ResolveB(r, p0, ob) ==
    LET playerBottom == p0.y + HALF_TILE
        playerTop == p0.y - HALF_TILE
        playerLeft == p0.x - HALF_TILE
        playerRight == p0.x + HALF_TILE
        obstacleTop == ob.y
        obstacleBottom == ob.y + TILE_SIZE * PX
        obstacleLeft == ob.x
        obstacleRight == ob.x + TILE_SIZE * PX
        overlapsX == playerRight > obstacleLeft + PX /\ playerLeft < obstacleRight - PX
        overlapsY == playerBottom > obstacleTop + PX /\ playerTop < obstacleBottom - PX
        overlapLeft == playerRight - obstacleLeft
        overlapRight == obstacleRight - playerLeft
        overlapTop == playerBottom - obstacleTop
        overlapBottom == obstacleBottom - playerTop
        minOverlap == Min(Min(overlapLeft, overlapRight), Min(overlapTop, overlapBottom))
        land == IF obstacleTop < r.highest
                THEN [r EXCEPT !.highest = obstacleTop, !.standing = TRUE]
                ELSE r
        gap == obstacleTop - playerBottom
    IN  IF overlapsX /\ overlapsY
        THEN IF minOverlap = overlapTop /\ r.vy >= 0 THEN land
             ELSE IF minOverlap = overlapBottom /\ r.vy <= 0
             THEN [r EXCEPT !.y = obstacleBottom + HALF_TILE, !.vy = 0]
             ELSE IF minOverlap = overlapLeft
             THEN [r EXCEPT !.x = obstacleLeft - HALF_TILE, !.vx = 0]
             ELSE IF minOverlap = overlapRight
             THEN [r EXCEPT !.x = obstacleRight + HALF_TILE, !.vx = 0]
             ELSE r
        ELSE IF overlapsX /\ ~overlapsY
        THEN IF gap >= 0 - PX /\ gap <= 3 * PX /\ r.vy >= 0 THEN land ELSE r
        ELSE r

\* overlapsX of the loop body: a tile that fails it leaves the loop's
\* variables as they are
OverlapsXB(p0, ob) ==
    /\ p0.x + HALF_TILE > ob.x + PX
    /\ p0.x - HALF_TILE < ob.x + TILE_SIZE * PX - PX

\* the loop over greenObstacles, in array order
RECURSIVE ResolveAllB(_, _, _)
ResolveAllB(r, p0, obs) ==
    LET near == SelectSeq(obs, LAMBDA ob : OverlapsXB(p0, ob))
    IN  IF near = << >> THEN r
        ELSE LET r1 == CHOOSE q \in { ResolveB(r, p0, Head(near)) } : TRUE
             IN  ResolveAllB(r1, p0, Tail(near))

\* a landing that leaves the player where the fall has carried it
checkGroundedNoSnapB(s) ==
    LET p0 == s.player
        r == ResolveAllB([ x |-> p0.x, y |-> p0.y, vx |-> p0.vx, vy |-> p0.vy,
                           standing |-> FALSE, highest |-> SCREEN_HEIGHT * PX ],
                         p0, greenObstacles(s.columns))
        s1 == IF r.standing
              THEN [s EXCEPT !.player.x = r.x,
                             !.player.vx = r.vx,
                             !.player.y = r.y,
                             !.player.vy = 0,
                             !.player.isGrounded = TRUE,
                             !.player.isRotating = IF p0.isGrounded THEN @ ELSE TRUE,
                             !.jump.lastGroundedTime = s.now]
              ELSE [s EXCEPT !.player.x = r.x,
                             !.player.vx = r.vx,
                             !.player.y = r.y,
                             !.player.vy = r.vy,
                             !.player.isGrounded = FALSE]
    IN  IF s1.player.y > (SCREEN_HEIGHT + 50) * PX THEN triggerGameOver(s1) ELSE s1

checkGroundedB(s) ==
    LET p0 == s.player
        r == ResolveAllB([ x |-> p0.x, y |-> p0.y, vx |-> p0.vx, vy |-> p0.vy,
                           standing |-> FALSE, highest |-> SCREEN_HEIGHT * PX ],
                         p0, greenObstacles(s.columns))
        s1 == IF r.standing
              THEN [s EXCEPT !.player.x = r.x,
                             !.player.vx = r.vx,
                             !.player.y = r.highest - HALF_TILE,
                             !.player.vy = 0,
                             !.player.isGrounded = TRUE,
                             !.player.isRotating = IF p0.isGrounded THEN @ ELSE TRUE,
                             !.jump.lastGroundedTime = s.now]
              ELSE [s EXCEPT !.player.x = r.x,
                             !.player.vx = r.vx,
                             !.player.y = r.y,
                             !.player.vy = r.vy,
                             !.player.isGrounded = FALSE]
    IN  IF s1.player.y > (SCREEN_HEIGHT + 50) * PX THEN triggerGameOver(s1) ELSE s1

checkGrounded(v, s) == IF v = "A" THEN checkGroundedA(s) ELSE checkGroundedB(s)

----------------------------------------------------------------------------
(* handleJump *)

\* Phaser.Input.Keyboard.JustDown / JustUp: true once per edge
ConsumeKey(s) == [s EXCEPT !.key.justDown = FALSE, !.key.justUp = FALSE]

handleJumpA(s) ==
    LET s0 == [s EXCEPT !.key.justDown = FALSE]
    IN  IF ~s.key.justDown THEN HistJump(s0, "none")
        ELSE IF s0.player.isGrounded
        THEN HistJump([s0 EXCEPT !.player.vy = JUMP_VELOCITY * VEL,
                                 !.player.isGrounded = FALSE,
                                 !.player.isRotating = FALSE,
                                 !.jump.jumpsUsed = 0,
                                 !.player.canDoubleJump = TRUE], "jump")
        ELSE IF s0.player.canDoubleJump /\ s0.jumpCharge >= JUMP_CHARGE_COST * CHARGE_UNIT
        THEN HistJump([s0 EXCEPT !.player.vy = JUMP_VELOCITY * VEL,
                                 !.player.canDoubleJump = FALSE,
                                 !.jumpCharge = @ - JUMP_CHARGE_COST * CHARGE_UNIT,
                                 !.jump.jumpsUsed = 1], "double")
        ELSE HistJump(s0, "none")

\* a regular jump that is paid for like a double jump
GroundJumpPaidB(s) ==
    [s EXCEPT !.player.vy = JUMP_VELOCITY * VEL,
              !.player.vx = 0,
              !.player.isGrounded = FALSE,
              !.player.isRotating = FALSE,
              !.jumpCharge = Max(0, @ - JUMP_CHARGE_COST * CHARGE_UNIT)]

\* the regular jump of src/unnamed/part_000 (lines 826-829 and 857-860)
GroundJumpB(s) ==
    [s EXCEPT !.player.vy = JUMP_VELOCITY * VEL,
              !.player.vx = 0,
              !.player.isGrounded = FALSE,
              !.player.isRotating = FALSE]

\* a launch that takes the whole charge whatever the charge time
LaunchFullB(s) ==
    [s EXCEPT !.player.vy = CHARGE_JUMP_MAX_VELOCITY * VEL,
              !.player.vx = CHARGE_JUMP_HORIZONTAL_VELOCITY * VEL,
              !.player.isGrounded = FALSE,
              !.player.isRotating = FALSE,
              !.jumpCharge = 0,
              !.jump.isChargingJump = FALSE,
              !.jump.chargeJumpTime = 0,
              !.jump.jumpHoldStartTime = Null,
              !.player.displayHeight = TILE_SIZE * PX]

\* a launch that leaves the jump charge as it is
LaunchFreeB(s) ==
    [LaunchFullB(s) EXCEPT !.jumpCharge = s.jumpCharge]

\* the launch phase: charge jump released after chargeJumpTime ms of charging
LaunchB(s) ==
    LET t == Min(s.jump.chargeJumpTime, CHARGE_JUMP_MAX_TIME_MS)
    IN  [s EXCEPT !.player.vy = CHARGE_JUMP_MIN_VELOCITY * VEL
                      + ((CHARGE_JUMP_MAX_VELOCITY - CHARGE_JUMP_MIN_VELOCITY) * VEL * t)
                        \div CHARGE_JUMP_MAX_TIME_MS,
                  !.player.vx = (CHARGE_JUMP_HORIZONTAL_VELOCITY * VEL * t)
                                \div CHARGE_JUMP_MAX_TIME_MS,
                  !.player.isGrounded = FALSE,
                  !.player.isRotating = FALSE,
                  !.jumpCharge = IF s.jump.chargeJumpTime > 0 THEN 0 ELSE @,
                  !.jump.isChargingJump = FALSE,
                  !.jump.chargeJumpTime = 0,
                  !.jump.jumpHoldStartTime = Null,
                  !.player.displayHeight = TILE_SIZE * PX]

\* a squashing phase that goes on counting past the maximum charge time
SquashNoCapB(s, dt) ==
    LET t == s.jump.chargeJumpTime + dt
    IN  [s EXCEPT !.jump.chargeJumpTime = t,
                  !.player.angle = 0,
                  !.player.isRotating = FALSE,
                  !.player.displayHeight =
                      TILE_SIZE * PX
                      - (TILE_SIZE * PX * Min(t, CHARGE_JUMP_MAX_TIME_MS)
                         * (SQUASH_DEN - SQUASH_NUM))
                        \div (CHARGE_JUMP_MAX_TIME_MS * SQUASH_DEN)]

\* the squashing phase: one more tick of dt ms spent charging
SquashB(s, dt) ==
    LET t == Min(s.jump.chargeJumpTime + dt, CHARGE_JUMP_MAX_TIME_MS)
    IN  [s EXCEPT !.jump.chargeJumpTime = t,
                  !.player.angle = 0,
                  !.player.isRotating = FALSE,
                  !.player.displayHeight =
                      TILE_SIZE * PX
                      - (TILE_SIZE * PX * t * (SQUASH_DEN - SQUASH_NUM))
                        \div (CHARGE_JUMP_MAX_TIME_MS * SQUASH_DEN)]

\* a double jump that costs nothing
DoubleJumpFreeB(s) ==
    [s EXCEPT !.player.vy = JUMP_VELOCITY * VEL,
              !.player.vx = 0]

\* the double jump (lines 805-812)
DoubleJumpB(s) ==
    [s EXCEPT !.player.vy = JUMP_VELOCITY * VEL,
              !.player.vx = 0,
              !.jumpCharge = @ - JUMP_CHARGE_COST * CHARGE_UNIT]

\* a ground-jump attempt that leaves the press in the buffer
AttemptGroundJumpKeepB(s) ==
    IF s.jumpCharge < JUMP_CHARGE_MAX * CHARGE_UNIT
    THEN HistJump(GroundJumpB(s), "jump")
    ELSE HistJump([s EXCEPT !.jump.jumpHoldStartTime = s.now,
                            !.hist.holdFrom = s.now], "hold")

\* the ground-jump attempt (lines 820-836): the buffer is cleared; short of
\* full charge the player jumps at once, at full charge hold-tracking starts
AttemptGroundJumpB(s) ==
    LET s1 == [s EXCEPT !.jump.jumpBufferTime = 0]
    IN  IF s1.jumpCharge < JUMP_CHARGE_MAX * CHARGE_UNIT
        THEN HistJump(GroundJumpB(s1), "jump")
        ELSE HistJump([s1 EXCEPT !.jump.jumpHoldStartTime = s1.now,
                                 !.hist.holdFrom = s1.now], "hold")

handleJumpB(s, dt) ==
    LET justDown == s.key.justDown
        justUp == s.key.justUp
        s0 == [ConsumeKey(s) EXCEPT !.jump.jumpBufferTime = IF justDown THEN s.now ELSE @]
        hasBufferedJump == (s0.now - s0.jump.jumpBufferTime) < JUMP_BUFFER_WINDOW
        timeSinceGrounded == s0.now - s0.jump.lastGroundedTime
        isActuallyInAir == ~s0.player.isGrounded /\ timeSinceGrounded > GRACE_MS
        isMovingUp == s0.player.vy < 0
        isOnGround == s0.player.isGrounded \/ timeSinceGrounded <= GRACE_MS
        shouldAttemptGroundJump ==
            (justDown \/ hasBufferedJump) /\ isOnGround /\ ~s0.jump.isChargingJump
    IN  IF s0.jump.isSliding
        THEN HistJump([s0 EXCEPT !.jump.isChargingJump = FALSE,
                        !.jump.chargeJumpTime = IF s0.jump.isChargingJump THEN 0 ELSE @,
                        !.player.displayHeight =
                            IF s0.jump.isChargingJump THEN TILE_SIZE * PX ELSE @,
                        !.jump.jumpHoldStartTime = Null], "sliding")
        ELSE IF s0.jump.isChargingJump /\ s0.key.isDown /\ s0.player.isGrounded
        THEN HistJump(SquashB(s0, dt), "squash")
        ELSE IF s0.jump.isChargingJump /\ justUp
        THEN HistJump([LaunchB(s0) EXCEPT !.hist.chargeMs = s0.jump.chargeJumpTime],
                      "launch")
        ELSE IF /\ justDown /\ isActuallyInAir /\ isMovingUp
                /\ ~s0.jump.isChargingJump
                /\ s0.jumpCharge >= JUMP_CHARGE_COST * CHARGE_UNIT
        THEN HistJump(DoubleJumpB(s0), "double")
        ELSE IF shouldAttemptGroundJump
        THEN AttemptGroundJumpB(s0)
        ELSE IF /\ s0.jump.jumpHoldStartTime # Null /\ isOnGround /\ s0.key.isDown
                /\ s0.now - s0.jump.jumpHoldStartTime >= HOLD_THRESHOLD_MS
        THEN HistJump([s0 EXCEPT !.jump.isChargingJump = TRUE,
                                 !.jump.chargeJumpTime = 0,
                                 !.jump.jumpHoldStartTime = Null], "charging")
        ELSE IF s0.jump.jumpHoldStartTime # Null /\ justUp
        THEN IF isOnGround
             THEN HistJump([GroundJumpB(s0) EXCEPT !.jump.jumpHoldStartTime = Null], "tap")
             ELSE HistJump([s0 EXCEPT !.jump.jumpHoldStartTime = Null], "drop")
        ELSE HistJump(s0, "none")

handleJump(v, s, dt) == IF v = "A" THEN handleJumpA(s) ELSE handleJumpB(s, dt)

----------------------------------------------------------------------------
(* handleRotation, handleJumpCharge *)

FULL_TURN == 360 * ANGLE_UNIT

\* player.angle is kept modulo 360 degrees: the code reads it only through
\* angle % 360
handleRotation(s, dt) ==
    IF ~s.player.isGrounded
    THEN [s EXCEPT !.player.angle = (@ + (360 * ANGLE_UNIT * dt) \div 1000) % FULL_TURN]
    ELSE IF s.player.isRotating
    THEN LET currentAngle == s.player.angle % FULL_TURN
             targetRotation == ((currentAngle + 45 * ANGLE_UNIT) \div (90 * ANGLE_UNIT))
                               * 90 * ANGLE_UNIT
             d0 == targetRotation - currentAngle
             d1 == IF d0 > 180 * ANGLE_UNIT THEN d0 - FULL_TURN ELSE d0
             angleDiff == IF d1 < (0 - 180) * ANGLE_UNIT THEN d1 + FULL_TURN ELSE d1
             sign == IF angleDiff > 0 THEN 1 ELSE IF angleDiff < 0 THEN 0 - 1 ELSE 0
         IN  IF Abs(angleDiff) < 5 * ANGLE_UNIT
             THEN [s EXCEPT !.player.angle = targetRotation % FULL_TURN,
                            !.player.isRotating = FALSE]
             ELSE [s EXCEPT !.player.angle =
                       (@ + sign * ((ROTATION_SPEED * ANGLE_UNIT * dt) \div 1000)) % FULL_TURN]
    ELSE s

\* handleJumpCharge without Math.min
handleJumpChargeNoCap(s, dt) ==
    [s EXCEPT !.jumpCharge = @ + (JUMP_CHARGE_RATE * CHARGE_UNIT * dt) \div 1000,
              !.jump.jumpsUsed = IF s.player.isGrounded THEN 0 ELSE @]

handleJumpCharge(s, dt) ==
    [s EXCEPT !.jumpCharge = Min(JUMP_CHARGE_MAX * CHARGE_UNIT,
                                 @ + (JUMP_CHARGE_RATE * CHARGE_UNIT * dt) \div 1000),
              !.jump.jumpsUsed = IF s.player.isGrounded THEN 0 ELSE @]

----------------------------------------------------------------------------
(* scrollWorld and update *)

\* the tiles move but none is destroyed
MoveColumnsKeep(cols, amount) ==
    [ i \in DOMAIN cols |-> [cols[i] EXCEPT !.x = @ - amount] ]

\* the two forEach loops of scrollWorld: every tile moves left by the scroll
\* amount and is destroyed if its x is then below -2 * TILE_FULL_SIZE; a
\* destroyed obstacle is inactive and is not in greenObstacles (spliced and
\* filtered in src/unnamed/part_000, skipped by checkGrounded in src/game.js).
\* The tiles of a column share their x, so they go together.
MoveColumns(cols, amount) ==
    SelectSeq([ i \in DOMAIN cols |-> [cols[i] EXCEPT !.x = @ - amount] ],
              LAMBDA c : ~ (c.x < (0 - TILE_FULL_SIZE * 2) * PX))

\* scrollWorld(delta): the scenes it can end with
scrollWorld(v, s, dt) ==
    LET scrollAmount == SCROLL_SPEED * (PX \div 1000) * dt
        s1 == [s EXCEPT !.columns = MoveColumns(@, scrollAmount),
                        !.worldX = @ + scrollAmount]
        rightEdge == ScreenWidth * PX
        actualLastColumnX == s1.gen.lastColumnX - s1.worldX
        newColumnX == s1.gen.lastColumnX + TILE_FULL_SIZE * PX
    IN  IF actualLastColumnX < rightEdge + TILE_FULL_SIZE * PX
        THEN { [s1 EXCEPT !.gen = [o.g EXCEPT !.lastColumnX = newColumnX],
                          !.columns = Append(@, [ x |-> newColumnX - s1.worldX, h |-> o.h,
                                                  id |-> s1.hist.n + 1 ]),
                          !.hist = HistColumn(@, o),
                          !.rng = o.r]
               : o \in generateColumn(v, s1.gen, s1.score, s1.rng) }
        ELSE { s1 }

\* update() with a score that stands still
AfterScrollNoScore(s, dt) ==
    IF s.player.y > (SCREEN_HEIGHT + 50) * PX THEN triggerGameOver(s) ELSE s

\* update() without its last check
AfterScrollNoFallCheck(s, dt) ==
    [s EXCEPT !.score = @ + (SCORE_RATE * SCORE_UNIT * dt) \div 1000]

\* the lines of update() after scrollWorld: the score and the fall check
AfterScroll(s, dt) ==
    LET s1 == [s EXCEPT !.score = @ + (SCORE_RATE * SCORE_UNIT * dt) \div 1000]
    IN  IF s1.player.y > (SCREEN_HEIGHT + 50) * PX THEN triggerGameOver(s1) ELSE s1

\* update(time, delta): the scenes it can end with
update(v, s, dt) ==
    IF s.isGameOver
    THEN IF s.key.justDown
         THEN restartGame(v, [s EXCEPT !.key.justDown = FALSE])
         ELSE { s }
    ELSE UNION { UNION { UNION { UNION {
            { AfterScroll(s5, dt) : s5 \in scrollWorld(v, s4, dt) }
            : s4 \in { handleJumpCharge(s3, dt) } }
            : s3 \in { handleRotation(s2, dt) } }
            : s2 \in { handleJump(v, s1, dt) } }
            : s1 \in { checkGrounded(v, s) } }

----------------------------------------------------------------------------
(* The game: key events and ticks *)

Becomes(s) ==
    /\ rng' = s.rng
    /\ now' = s.now
    /\ key' = s.key
    /\ isGameOver' = s.isGameOver
    /\ score' = s.score
    /\ highScore' = s.highScore
    /\ cookie' = s.cookie
    /\ worldX' = s.worldX
    /\ jumpCharge' = s.jumpCharge
    /\ jump' = s.jump
    /\ player' = s.player
    /\ gen' = s.gen
    /\ columns' = s.columns
    /\ hist' = s.hist

\* the random source of a flat world: every draw returns the top of its range
RngFlat == { << { RandDen - 1 } >> }

BudgetPlay ==
    [ keys |-> MaxKeyPresses, odd |-> MaxOddTicks, lagged |-> 0,
      playMs |-> MaxPlayMs ]

\* the time played so far, stalls not counted
PlayedMs == now - BootMs - LagMs * budget.lagged

\* the page has loaded and create() has run at time BootMs
InitGame(variants, rngs, cookies, b) ==
    /\ variant \in variants
    /\ pc = "play"
    /\ budget = b
    /\ \E r \in rngs : \E c \in cookies : \E s \in create(variant, BootMs, r, c) :
          /\ rng = s.rng
          /\ now = s.now
          /\ key = s.key
          /\ isGameOver = s.isGameOver
          /\ score = s.score
          /\ highScore = s.highScore
          /\ cookie = s.cookie
          /\ worldX = s.worldX
          /\ jumpCharge = s.jumpCharge
          /\ jump = s.jump
          /\ player = s.player
          /\ gen = s.gen
          /\ columns = s.columns
          /\ hist = s.hist

\* a first visit, or a visit that finds the cookie of an earlier one
Cookies == { Null, SavedHighScore }

Variants == { "A", "B" }

Init == InitGame(Variants, RngFlat, Cookies, BudgetPlay)

\* the space key goes down (Phaser Key.onDown)
Press ==
    /\ pc = "play"
    /\ ~key.isDown
    /\ budget.keys > 0
    /\ key' = [ isDown |-> TRUE, justDown |-> TRUE, justUp |-> FALSE ]
    /\ budget' = [budget EXCEPT !.keys = @ - 1]
    /\ hist' = [hist EXCEPT !.pressAt = now,
                            !.tapReady =
                    /\ variant = "B" /\ ~isGameOver /\ ~jump.isChargingJump
                    /\ jumpCharge = JUMP_CHARGE_MAX * CHARGE_UNIT
                    /\ player.isGrounded \/ now - jump.lastGroundedTime <= GRACE_MS]
    /\ UNCHANGED <<variant, rng, now, isGameOver, score, highScore, cookie,
                   worldX, jumpCharge, jump, player, gen, columns, pc>>

\* the space key goes up (Phaser Key.onUp)
Release ==
    /\ pc = "play"
    /\ key.isDown
    /\ key' = [ isDown |-> FALSE, justDown |-> FALSE, justUp |-> TRUE ]
    /\ UNCHANGED <<variant, rng, now, isGameOver, score, highScore, cookie,
                   worldX,
                   jumpCharge, jump, player, gen, columns, pc, hist, budget>>

\* the host's part of a frame before update(): the clock, the physics step
\* and, in src/game.js, the overlap callbacks
BeforeUpdate(v, s, dt) ==
    LET s0 == [s EXCEPT !.now = @ + dt,
                        !.hist.pressAt = IF s.key.isDown THEN @ ELSE Null,
                        !.hist.tapReady = IF s.key.isDown THEN @ ELSE FALSE]
        s1 == PhysicsStep(s0, dt)
    IN  IF v = "A"
        THEN OverlapCallbacks(s1, s1.player, greenObstacles(s1.columns))
        ELSE s1

\* one frame of dt milliseconds
Tick(dt) ==
    /\ pc = "play"
    /\ PlayedMs < budget.playMs
    /\ dt # TickMs => budget.odd > 0
    /\ budget' = [budget EXCEPT !.odd = IF dt # TickMs THEN @ - 1 ELSE @,
                                !.lagged = IF dt = LagMs THEN @ + 1 ELSE @]
    /\ \E s1 \in { BeforeUpdate(variant, Scene, dt) } :
          \E s2 \in update(variant, s1, dt) : Becomes(s2)
    /\ UNCHANGED <<variant, pc>>

Deltas == { 0, TickMs, LagMs }

Next ==
    \/ Press
    \/ Release
    \/ \E dt \in Deltas : Tick(dt)

Spec == Init /\ [][Next]_vars

----------------------------------------------------------------------------
(* src/unnamed/part_000 on a first visit, played a little longer: long     *)
(* enough for a session to end, be restarted and reach the ground again    *)

BudgetHold ==
    [ keys |-> MaxKeyPresses, odd |-> MaxOddTicks, lagged |-> 0,
      playMs |-> MaxHoldMs ]

InitHold == InitGame({ "B" }, RngFlat, { Null }, BudgetHold)

SpecHold == InitHold /\ [][Next]_vars

----------------------------------------------------------------------------
(* src/unnamed/part_000 with a single press of the key and ordinary frames *)
(* only, played long enough for a charge jump to come down again           *)

BudgetLeap == [ keys |-> 1, odd |-> 0, lagged |-> 0, playMs |-> MaxLeapMs ]

InitLeap == InitGame({ "B" }, RngFlat, { Null }, BudgetLeap)

SpecLeap == InitLeap /\ [][Next]_vars

----------------------------------------------------------------------------
(* A first visit with ordinary frames only and a key that can be pressed   *)
(* often enough to jump and press twice more before coming down            *)

BudgetAir == [ keys |-> MaxAirPresses, odd |-> 0, lagged |-> 0, playMs |-> MaxAirMs ]

InitAir == InitGame(Variants, RngFlat, { Null }, BudgetAir)

SpecAir == InitAir /\ [][Next]_vars

----------------------------------------------------------------------------
(* The game left alone on uneven ground: no key is touched, every frame is *)
(* an ordinary one                                                         *)

\* random sources whose draws return five eighths or the top of their
\* range in a fixed cyclic order: the columns are 5 or 7 tiles high
Lo == { (5 * RandDen) \div 8 }
Hi == { RandDen - 1 }
RngHills == [ 1 .. TapeLen -> { Lo, Hi } ]

BudgetRide == [ keys |-> 0, odd |-> 0, lagged |-> 0, playMs |-> MaxRideMs ]

InitRide == InitGame(Variants, RngHills, { Null }, BudgetRide)

NextRide == Tick(TickMs)

SpecRide == InitRide /\ [][NextRide]_vars

----------------------------------------------------------------------------
(* src/unnamed/part_000 in the hilly worlds with a single press of the     *)
(* key: the ground can end under a player that is holding the key          *)

BudgetCliff == [ keys |-> 1, odd |-> 0, lagged |-> 0, playMs |-> MaxCliffMs ]

InitCliff == InitGame({ "B" }, RngHills, { Null }, BudgetCliff)

SpecCliff == InitCliff /\ [][Next]_vars

----------------------------------------------------------------------------
(* src/game.js in the hilly worlds with a single press of the key and one  *)
(* irregular frame: the player can be pushed, the session can end and be   *)
(* restarted                                                               *)

BudgetShove ==
    [ keys |-> 1, odd |-> MaxOddTicks, lagged |-> 0, playMs |-> MaxShoveMs ]

InitShove == InitGame({ "A" }, RngHills, { Null }, BudgetShove)

SpecShove == InitShove /\ [][Next]_vars

----------------------------------------------------------------------------
(* The landing alignment alone: the player has come down on a flat world   *)
(* after some airborne frames and stays on the ground; every frame has the *)
(* same length, held in budget.delta (this.game.loop.delta), and only      *)
(* handleRotation() acts on the angle                                       *)

FrameRates == { 20, 30, 40, 60 }

\* the angle after k airborne frames of dt ms, starting upright
AirAngle(k, dt) == (k * ((360 * ANGLE_UNIT * dt) \div 1000)) % FULL_TURN

\* the scene checkGrounded() leaves in the frame of the landing
Landed(v, s, a) ==
    checkGrounded(v, [s EXCEPT !.player.y = TileY(ROWS - 1) - HALF_TILE,
                               !.player.angle = a])

InitAlign ==
    /\ variant \in Variants
    /\ pc = "play"
    /\ \E f \in FrameRates : budget = [ delta |-> 1000 \div f ]
    /\ \E r \in RngFlat : \E k \in 0 .. MaxAirFrames :
       \E s0 \in create(variant, BootMs, r, Null) :
       \E s \in { Landed(variant, s0, AirAngle(k, budget.delta)) } :
          /\ s.player.isGrounded /\ s.player.isRotating
          /\ rng = s.rng
          /\ now = s.now
          /\ key = s.key
          /\ isGameOver = s.isGameOver
          /\ score = s.score
          /\ highScore = s.highScore
          /\ cookie = s.cookie
          /\ worldX = s.worldX
          /\ jumpCharge = s.jumpCharge
          /\ jump = s.jump
          /\ player = s.player
          /\ gen = s.gen
          /\ columns = s.columns
          /\ hist = s.hist

\* one frame of a grounded player that is left alone
AlignTick ==
    /\ pc = "play"
    /\ player.isGrounded
    /\ player' = handleRotation(Scene, budget.delta).player
    /\ UNCHANGED <<variant, rng, now, key, isGameOver, score, highScore, cookie,
                   worldX, jumpCharge, jump, gen, columns, pc, hist, budget>>

\* frames keep coming
SpecAlign == InitAlign /\ [][AlignTick]_vars /\ WF_vars(AlignTick)

----------------------------------------------------------------------------
(* The generator alone: generateColumn called as create(), scrollWorld()   *)
(* and restartGame() call it, with every outcome of Math.random(); the     *)
(* tiles themselves are left out                                           *)

RngAny == << 0 .. RandDen - 1 >>

InitGen ==
    /\ variant \in { "A", "B" }
    /\ pc = "create"
    /\ budget = [ restarts |-> MaxRestarts ]
    /\ rng = RngAny
    /\ now = BootMs
    /\ key = KeyInit
    /\ isGameOver = FALSE
    /\ score = 0
    /\ highScore = 0
    /\ cookie = Null
    /\ worldX = 0
    /\ jumpCharge = JUMP_CHARGE_MAX * CHARGE_UNIT
    /\ jump = JumpInit
    /\ player = PlayerInit
    /\ gen = GenUndefined
    /\ columns = << >>
    /\ hist = HistInit

\* one pass of the loop of generateInitialColumns()
GenInitialColumn ==
    /\ pc = "create"
    /\ hist.n < numColumns
    /\ \E o \in generateColumn(variant, gen, score, rng) :
          /\ gen' = [o.g EXCEPT !.lastColumnX = hist.n * TILE_FULL_SIZE * PX]
          /\ hist' = HistColumn(hist, o)
          /\ rng' = o.r
    /\ UNCHANGED <<variant, now, key, isGameOver, score, highScore, cookie,
                   worldX,
                   jumpCharge, jump, player, columns, pc, budget>>

\* the loop is over; create() goes on to its last lines, restartGame() returns
GenCreated ==
    /\ pc = "create"
    /\ hist.n = numColumns
    /\ pc' = "scroll"
    /\ gen' = IF hist.restarted THEN gen ELSE GenReset(variant)
    /\ UNCHANGED <<variant, rng, now, key, isGameOver, score, highScore, cookie,
                   worldX,
                   jumpCharge, jump, player, columns, hist, budget>>

\* scrollWorld() generates a column
GenScrollColumn ==
    /\ pc = "scroll"
    /\ hist.n < MaxGenColumns
    /\ \E o \in generateColumn(variant, gen, score, rng) :
          /\ gen' = [o.g EXCEPT !.lastColumnX = gen.lastColumnX + TILE_FULL_SIZE * PX]
          /\ hist' = HistColumn(hist, o)
          /\ rng' = o.r
    /\ UNCHANGED <<variant, now, key, isGameOver, score, highScore, cookie,
                   worldX,
                   jumpCharge, jump, player, columns, pc, budget>>

\* the session goes on: the score grows
GenScore ==
    /\ pc = "scroll"
    /\ score + GenScoreStep * SCORE_UNIT <= MaxGenScore * SCORE_UNIT
    /\ score' = score + GenScoreStep * SCORE_UNIT
    /\ UNCHANGED <<variant, rng, now, key, isGameOver, highScore, cookie,
                   worldX,
                   jumpCharge, jump, player, gen, columns, pc, hist, budget>>

\* restartGame() up to its call of generateInitialColumns()
GenRestart ==
    /\ pc = "scroll"
    /\ budget.restarts > 0
    /\ budget' = [budget EXCEPT !.restarts = @ - 1]
    /\ pc' = "create"
    /\ Becomes(RestartFields(variant, Scene))
    /\ UNCHANGED variant

NextGen ==
    \/ GenInitialColumn
    \/ GenCreated
    \/ GenScrollColumn
    \/ GenScore
    \/ GenRestart

SpecGen == InitGen /\ [][NextGen]_vars

----------------------------------------------------------------------------
(* The claims *)

\* C1: in every session, the first one included, the first 30 columns that
\* generateColumn produces have height 7.
C1_RampUp == hist.n \in 1 .. RAMP_UP_COLUMNS => hist.last = 7

\* C2: no session has three consecutive columns of height 0, whether the
\* columns are fresh draws or repeats of a pattern.
C2_EmptyRun == hist.zeros < 3

\* C3: immediately after restartGame() the score, the world offset, the
\* generation counters, the player's position, velocity and rotation and the
\* jump-charge state are those a fresh session starts with, and the live
\* columns are the new session's only.
C3_RestartResets ==
    hist.event = "restart" =>
        /\ score = 0
        /\ worldX = 0
        /\ gen = GenReset(variant)
        /\ player.x = PlayerInit.x /\ player.y = PlayerInit.y
        /\ player.vx = 0 /\ player.vy = 0 /\ player.angle = 0
        /\ jumpCharge = JUMP_CHARGE_MAX * CHARGE_UNIT
        /\ jump.jumpBufferTime = JumpInit.jumpBufferTime
        /\ jump.jumpHoldStartTime = JumpInit.jumpHoldStartTime
        /\ jump.chargeJumpTime = JumpInit.chargeJumpTime
        /\ jump.isChargingJump = JumpInit.isChargingJump
        /\ Len(columns) = numColumns
        /\ \A i \in DOMAIN columns : columns[i].x = (i - 1) * TILE_FULL_SIZE * PX

\* C4: while the session is Running the score grows by 10 points per second
\* of elapsed time in every frame and never decreases; once the game is
\* over the score stays as it is until restartGame() runs.
C4_MonotonicScore ==
    [][ hist'.restarts = hist.restarts =>
          /\ ~isGameOver /\ ~isGameOver' =>
                score' = score + (SCORE_RATE * SCORE_UNIT * (now' - now)) \div 1000
          /\ ~isGameOver => score' >= score
          /\ isGameOver => isGameOver' /\ score' = score ]_vars

\* a frame has passed since the game was over (gravity has acted on the
\* stopped player) and the score is what it was
C4_Frozen == isGameOver /\ score > 0 /\ player.vy > 0

\* C5: a new column is placed one pitch to the right of the rightmost one,
\* so that in every session the live columns have pairwise distinct x
\* positions.
C5_ColumnPlacement ==
    \A i, j \in DOMAIN columns : i # j => columns[i].x # columns[j].x

\* C6: no frame ends with the session Running and the player's x below
\* -TILE_SIZE.
C6_LeftBoundary == ~isGameOver => player.x >= (0 - TILE_SIZE) * PX

C8_SingleJumpOnly == ~ (hist.event = "double" /\ player.vy = JUMP_VELOCITY * VEL)

\* C9: a frame of a Running session that leaves the player's y above
\* screenHeight + 50 ends with the game over and the player's velocity
\* (0, 0), whatever handleJump did in that frame.
C9_FellOff ==
    [][ ~isGameOver /\ hist'.restarts = hist.restarts
        /\ player'.y > (SCREEN_HEIGHT + 50) * PX
        => isGameOver' /\ player'.vx = 0 /\ player'.vy = 0 ]_vars

\* the game ended by a fall in a frame in which handleJump set a velocity
C9_FellWhileJumping ==
    /\ isGameOver /\ player.y > (SCREEN_HEIGHT + 50) * PX
    /\ player.vx = 0 /\ player.vy = 0
    /\ hist.event \in { "double", "launch" }

\* C10: the jump charge is always between 0 and JUMP_CHARGE_MAX.
C10_ChargeRange == jumpCharge >= 0 /\ jumpCharge <= JUMP_CHARGE_MAX * CHARGE_UNIT

\* a jump has spent charge and the charge is growing back
C10_Recharging ==
    ~isGameOver /\ jumpCharge > 0 /\ jumpCharge < JUMP_CHARGE_COST * CHARGE_UNIT

\* C11: in src/unnamed/part_000 a frame of a Running session performs a
\* double jump only if the key was freshly pressed, the player was and stays
\* off the ground, more than 100 ms have passed since lastGroundedTime, the
\* player is moving up, no charge jump is being charged and the jump charge
\* is at least 50; the double jump takes exactly 50 from the jump charge and
\* sets the velocity to (0, JUMP_VELOCITY).
C11_DoubleJump ==
    [][ /\ now' # now \/ budget'.odd # budget.odd
        /\ variant = "B" /\ ~isGameOver /\ hist'.event = "double"
        => /\ key.justDown
           /\ ~player.isGrounded /\ ~player'.isGrounded
           /\ now' - jump'.lastGroundedTime > GRACE_MS
           /\ player.vy + (GRAVITY * VEL * (now' - now)) \div 1000 < 0
           /\ ~jump.isChargingJump
           /\ jumpCharge >= JUMP_CHARGE_COST * CHARGE_UNIT
           /\ hist'.chargeAfter = jumpCharge - JUMP_CHARGE_COST * CHARGE_UNIT
           /\ ~isGameOver' => player'.vy = JUMP_VELOCITY * VEL /\ player'.vx = 0 ]_vars

\* a double jump of src/unnamed/part_000 has taken 50 from a full charge
C11_DoubleJumped ==
    /\ variant = "B" /\ hist.event = "double" /\ ~isGameOver
    /\ hist.chargeAfter = (JUMP_CHARGE_MAX - JUMP_CHARGE_COST) * CHARGE_UNIT

\* C12: in src/unnamed/part_000 the launch of a charge jump sets the jump
\* charge to 0 if chargeJumpTime is positive and leaves it as it is if
\* chargeJumpTime is 0; either way it clears isChargingJump and resets
\* chargeJumpTime and jumpHoldStartTime.
C12_LaunchCost ==
    [][ /\ now' # now \/ budget'.odd # budget.odd
        /\ ~isGameOver /\ hist'.event = "launch"
        => /\ variant = "B"
           /\ jump.isChargingJump /\ key.justUp
           /\ hist'.chargeMs = jump.chargeJumpTime
           /\ hist'.chargeAfter = IF jump.chargeJumpTime > 0 THEN 0 ELSE jumpCharge
           /\ ~jump'.isChargingJump
           /\ jump'.chargeJumpTime = 0
           /\ jump'.jumpHoldStartTime = Null ]_vars

\* a charge jump launched after some time of charging has emptied the charge
C12_PaidLaunch ==
    hist.event = "launch" /\ ~isGameOver /\ hist.chargeMs > 0 /\ hist.chargeAfter = 0

\* C13: a jump from the ground (the grounded jump of src/game.js, the
\* immediate jump and the quick-release jump of src/unnamed/part_000) leaves
\* the jump charge as it found it, and the jump charge goes down only in a
\* frame in which handleJump performs a double jump or launches a charge jump.
C13_FreeJump ==
    [][ /\ /\ now' # now \/ budget'.odd # budget.odd
           /\ ~isGameOver /\ hist'.event \in { "jump", "tap" }
           => hist'.chargeAfter = jumpCharge /\ jumpCharge' >= jumpCharge
        /\ jumpCharge' < jumpCharge
           => ~isGameOver /\ hist'.event \in { "double", "launch" } ]_vars

\* src/unnamed/part_000 has jumped at once, the jump charge being short of
\* full, and the charge is what it was
C13_JumpedShortOfFull ==
    /\ variant = "B" /\ hist.event = "jump" /\ ~isGameOver
    /\ hist.chargeAfter < JUMP_CHARGE_MAX * CHARGE_UNIT

C15_GameOverInert ==
    [][ /\ /\ now' # now \/ budget'.odd # budget.odd
           /\ isGameOver /\ ~key.justDown
           => /\ UNCHANGED <<score, worldX, columns, gen, jumpCharge, jump, isGameOver>>
              /\ player'.vx = player.vx /\ player'.vy = player.vy
        /\ isGameOver /\ ~isGameOver' => key.justDown /\ hist'.event = "restart"
        /\ ~isGameOver => hist'.restarts = hist.restarts ]_vars

\* C16: the game goes from Running to GameOver only in a frame that leaves
\* the player's y above screenHeight + 50 or, in src/game.js, the player's x
\* below -TILE_SIZE.
C16_TerminalOnly ==
    [][ ~isGameOver /\ isGameOver'
        => \/ player'.y > (SCREEN_HEIGHT + 50) * PX
           \/ variant = "A" /\ player'.x < (0 - TILE_SIZE) * PX ]_vars

\* src/game.js has just ended the game with the player pushed off the left
\* edge and still above the bottom of the screen
C16_PushedOut ==
    /\ isGameOver /\ variant = "A"
    /\ player.x < (0 - TILE_SIZE) * PX
    /\ player.y <= (SCREEN_HEIGHT + 50) * PX
    /\ player.vx = 0 /\ player.vy = 0

\* C17: a column of tiles whose x falls below -2 * TILE_FULL_SIZE in
\* scrollWorld is destroyed in that frame, and a column that is no longer
\* live never comes back: the tiles checkGrounded goes through in a later
\* frame belong to columns that were live before or have just been generated.
C17_Retirement ==
    [][ hist'.restarts = hist.restarts =>
          /\ \A i \in DOMAIN columns :
                /\ worldX' # worldX
                /\ columns[i].x - (worldX' - worldX) < (0 - 2 * TILE_FULL_SIZE) * PX
                => \A j \in DOMAIN columns' : columns'[j].id # columns[i].id
          /\ \A j \in DOMAIN columns' :
                \/ \E i \in DOMAIN columns : columns[i].id = columns'[j].id
                \/ columns'[j].id \in hist.n + 1 .. hist'.n ]_vars

\* columns have been retired in two different frames and checkGrounded has
\* since found the player standing
C17_RetiredTwice ==
    ~isGameOver /\ player.isGrounded /\ hist.n - Len(columns) >= 3

\* C18: when a session ends the high score becomes the larger of what it
\* was and the floor of the final score, and the cookie is written exactly
\* when the high score changed; so while the game is over the high score is
\* at least the floor of the score, and the high score never decreases.
C18_HighScore ==
    [][ /\ ~isGameOver /\ isGameOver'
           => highScore' = Max(highScore, FloorScore(score'))
        /\ isGameOver' => highScore' >= FloorScore(score')
        /\ highScore' >= highScore
        /\ cookie' # cookie <=> highScore' # highScore
        /\ highScore' # highScore => cookie' = highScore' ]_vars

\* a session has beaten the high score found in the cookie, and the next
\* session runs with the new high score
C18_KeptAfterRestart ==
    /\ ~isGameOver /\ hist.restarts > 0
    /\ highScore > SavedHighScore /\ cookie = highScore
    /\ FloorScore(score) < highScore

\* C19: the tiles in greenObstacles are exactly the tiles of rows 0 .. h-1
\* of the live columns, h being the column's generated height, and a frame
\* that leaves the player grounded has found one of those tiles under the
\* player: its top at the player's bottom and its span overlapping the
\* player's. A background tile is never in greenObstacles and never holds
\* the player.
C19_OnlyObstacles ==
    [][ /\ \E obs \in { greenObstacles(columns') } :
              { << obs[k].x, obs[k].y, obs[k].isObstacle >> : k \in DOMAIN obs }
              = UNION { { << columns'[i].x, TileY(row), TRUE >>
                          : row \in 0 .. columns'[i].h - 1 }
                        : i \in DOMAIN columns' }
        /\ now' # now /\ ~isGameOver /\ ~isGameOver' /\ player'.isGrounded
           => \E i \in DOMAIN columns : \E row \in 0 .. columns[i].h - 1 :
                 /\ TileY(row) = player'.y + HALF_TILE
                 /\ \E px \in { player.x, player'.x } :
                       /\ px + HALF_TILE > columns[i].x + PX
                       /\ px - HALF_TILE < columns[i].x + (TILE_SIZE - 1) * PX ]_vars

\* the player stands on a column five tiles high, under the column's two
\* background tiles
C19_UnderBackground ==
    ~isGameOver /\ player.isGrounded /\ player.y + HALF_TILE = TileY(4)

\* C20: in src/unnamed/part_000 the difficulty level generateColumn computes
\* is the floor of score / 200 at the time of the call and is never below the
\* level of the session's previous call; maxHeightDiff is 2 + level and
\* patternMaxFreq is 12 + 2 * level.
C20_DifficultyMonotonic ==
    [][ variant = "B" /\ hist'.n = hist.n + 1
        => /\ hist'.level = score \div (DIFFICULTY_STEP * SCORE_UNIT)
           /\ hist.n > 0 => hist'.level >= hist.level
           /\ maxHeightDiff(score) = 2 + hist'.level
           /\ patternMaxFreq(score) = 12 + 2 * hist'.level
           /\ hist.n > 0 => /\ maxHeightDiff(score) >= 2 + hist.level
                            /\ patternMaxFreq(score) >= 12 + 2 * hist.level ]_vars

\* a second session has generated a column at the third difficulty level
C20_LevelTwoAgain ==
    variant = "B" /\ hist.restarted /\ hist.level = 2 /\ hist.n > RAMP_UP_COLUMNS

----------------------------------------------------------------------------
\* C21: in src/unnamed/part_000 the horizontal velocity is non-zero only
\* while the player is airborne after a charge launch: whenever a running
\* session has the player grounded at the end of checkGrounded(), vx = 0.
C21_NoDriftOnGround ==
    variant = "B" /\ ~isGameOver /\ player.isGrounded => player.vx = 0

\* C22: in src/unnamed/part_000 a press made in the air is honoured when the
\* player is grounded within 100 ms, and the player then leaves the ground by
\* a jump without a further press: at once below full charge, on the release
\* of the key at full charge, whether or not the key was released before the
\* landing. So while hold-tracking is active in a running session, the key
\* is held or its release is still to be read by JustUp.
C22_BufferedPressJumps ==
    variant = "B" /\ ~isGameOver /\ jump.jumpHoldStartTime # Null =>
        key.isDown \/ key.justUp

\* C23: in src/unnamed/part_000, with full jump charge and the player grounded
\* or within the grace window, a press followed by a release less than 150 ms
\* later always gives a regular jump (vy = JUMP_VELOCITY, vx = 0) that costs
\* no charge and clears hold-tracking, whenever the release falls relative to
\* the frames: the frame that reads the release makes the jump.
C23_TapJump ==
    [][ /\ now' # now \/ budget'.odd # budget.odd
        /\ variant = "B" /\ ~isGameOver /\ ~isGameOver'
        /\ key.justUp /\ hist.tapReady
        /\ now' - hist.pressAt < HOLD_THRESHOLD_MS
        => /\ hist'.event = "tap"
           /\ player'.vy = JUMP_VELOCITY * VEL
           /\ player'.vx = 0
           /\ jumpCharge' = JUMP_CHARGE_MAX * CHARGE_UNIT
           /\ jump'.jumpHoldStartTime = Null ]_vars

\* C24: in src/unnamed/part_000 isChargingJump becomes true only when
\* hold-tracking is active, the key has been held without a break for at
\* least 150 ms since the press that started (or last restarted)
\* hold-tracking, the player is grounded or within the grace window and the
\* jump charge is at its maximum; chargeJumpTime is then 0.
C24_EnterCharging ==
    [][ variant = "B" /\ ~jump.isChargingJump /\ jump'.isChargingJump
        => /\ jump.jumpHoldStartTime # Null
           /\ key.isDown
           /\ hist.pressAt # Null
           /\ hist.pressAt <= jump.jumpHoldStartTime
           /\ now' - hist.pressAt >= HOLD_THRESHOLD_MS
           /\ player'.isGrounded \/ now' - jump'.lastGroundedTime <= GRACE_MS
           /\ jumpCharge = JUMP_CHARGE_MAX * CHARGE_UNIT
           /\ jump'.chargeJumpTime = 0 ]_vars

\* C25: in src/unnamed/part_000 a frame that finds a fresh or still-buffered
\* press while the player is grounded or within 100 ms of having been
\* grounded, and not charging, attempts a ground jump: short of full charge
\* the player jumps in that frame (vy = JUMP_VELOCITY, vx = 0, no longer
\* grounded, charge unchanged); at full charge the velocity is left as it is
\* and hold-tracking starts (jumpHoldStartTime = now); in both cases the
\* buffered press is consumed.
C25_GroundJumpAttempt ==
    [][ /\ now' # now \/ budget'.odd # budget.odd
        /\ variant = "B" /\ ~isGameOver /\ ~isGameOver'
        /\ key.justDown \/ now' - jump.jumpBufferTime < JUMP_BUFFER_WINDOW
        /\ now' - jump'.lastGroundedTime <= GRACE_MS
        /\ ~jump.isChargingJump /\ ~jump'.isSliding
        => /\ jump'.jumpBufferTime = 0
           /\ IF jumpCharge < JUMP_CHARGE_MAX * CHARGE_UNIT
              THEN /\ hist'.event = "jump"
                   /\ player'.vy = JUMP_VELOCITY * VEL
                   /\ player'.vx = 0
                   /\ ~player'.isGrounded
                   /\ hist'.chargeAfter = jumpCharge
              ELSE /\ hist'.event = "hold"
                   /\ jump'.jumpHoldStartTime = now'
                   /\ player'.vx = player.vx
                   /\ player'.vy = IF player'.isGrounded THEN 0
                                   ELSE player.vy + (GRAVITY * VEL * (now' - now)) \div 1000
                   /\ jumpCharge' = jumpCharge ]_vars

\* src/unnamed/part_000 has made the ground jump short of full charge, in
\* the grace window after a launch: the press is consumed, the player moves
\* up at JUMP_VELOCITY with no horizontal velocity
C25_JumpedAtOnce ==
    /\ variant = "B" /\ hist.event = "jump" /\ ~isGameOver
    /\ ~key.justDown /\ jump.jumpBufferTime = 0
    /\ now - jump.lastGroundedTime <= GRACE_MS /\ ~player.isGrounded
    /\ player.vy = JUMP_VELOCITY * VEL /\ player.vx = 0
    /\ jumpCharge < JUMP_CHARGE_MAX * CHARGE_UNIT

\* C26: the landing alignment ends: with frames of any constant length, a
\* player that stays on the ground after a landing stops rotating after
\* finitely many frames, and the angle does not swing around the target for
\* ever.
C26_AlignmentEnds == <>(~player.isRotating)

\* C27: in src/unnamed/part_000 every column generated after the first of a
\* session differs in height from the column generated before it by at
\* most 2 + floor(score / 200), whether its height is a draw, a repeat, the
\* clamp or the forced redraw of an empty column.
C27_HeightDelta ==
    [][ variant = "B" /\ hist.n >= 1 /\ hist'.n = hist.n + 1
        => Abs(hist'.last - hist.last) <= maxHeightDiff(score) ]_vars

\* C28: in src/unnamed/part_000 every height drawn afresh schedules one to
\* three repeats of itself, and no column stands alone: a generated column
\* that differs in height from the column before it is followed by a column
\* of its own height.
C28_NoStandalone ==
    [][ variant = "B" /\ hist'.n = hist.n + 1
        => /\ hist'.draws > 0 => /\ gen'.patternColumnsRemaining \in 1 .. 3
                                 /\ gen'.patternHeight = hist'.last
           /\ hist.n >= 1 /\ ~hist.paired => hist'.last = hist.last ]_vars

\* C29: the draw loop of generateColumn in src/unnamed/part_000 draws at
\* most 11 heights whatever Math.random() returns, and the height is the
\* clamped value exactly when the 11th draw has been made; generateColumn
\* always ends.
C29_BoundedRetry ==
    variant = "B" /\ hist.n > 0 =>
        /\ hist.draws \in 0 .. 11
        /\ hist.clamped <=> hist.draws = 11

\* src/unnamed/part_000 has drawn 11 heights for one column and taken the
\* clamped value
C29_GaveUp == variant = "B" /\ hist.clamped /\ hist.draws = 11

\* the tops of the tiles that checkGrounded() of src/unnamed/part_000 takes
\* for a landing, for a player p that is not moving up
LandingTops(p, obs) ==
    { obs[i].y : i \in { k \in DOMAIN obs :
        LET bottom == p.y + HALF_TILE
            top == p.y - HALF_TILE
            left == p.x - HALF_TILE
            right == p.x + HALF_TILE
            ob == obs[k]
            overX == right > ob.x + PX /\ left < ob.x + TILE_SIZE * PX - PX
            overY == bottom > ob.y + PX /\ top < ob.y + TILE_SIZE * PX - PX
        IN  /\ overX
            /\ IF overY
               THEN /\ bottom - ob.y <= right - ob.x
                    /\ bottom - ob.y <= ob.x + TILE_SIZE * PX - left
                    /\ bottom - ob.y <= ob.y + TILE_SIZE * PX - top
               ELSE ob.y - bottom >= 0 - PX /\ ob.y - bottom <= 3 * PX } }

\* C30: in src/unnamed/part_000, when checkGrounded() finds at least one tile
\* to land on, the player is put on the highest of them (y = smallest top -
\* TILE_SIZE / 2) with vy = 0 and isGrounded = true, and isRotating becomes
\* true only if the player was airborne before; when it finds none,
\* isGrounded = false. So a grounded player has vy = 0. (The player is left
\* alone, so nothing after checkGrounded() moves it in the frame.)
C30_LandingSnap ==
    [][ variant = "B" /\ ~isGameOver /\ now' # now
        => \E p \in { PhysicsStep(Scene, now' - now).player } :
           \E tops \in { LandingTops(p, greenObstacles(columns)) } :
              /\ p.vy >= 0
              /\ IF tops # {}
                 THEN /\ \E t \in tops : /\ player'.y = t - HALF_TILE
                                         /\ \A u \in tops : t <= u
                      /\ player'.vy = 0
                      /\ player'.isGrounded
                 ELSE ~player'.isGrounded
              /\ ~player.isRotating /\ player'.isRotating => ~player.isGrounded
              /\ player'.isGrounded => player'.vy = 0 ]_vars

\* src/unnamed/part_000 has come down on a column lower than the one it
\* stood on and has been put on its top
C30_SteppedDown ==
    /\ variant = "B" /\ ~isGameOver /\ player.isGrounded /\ player.isRotating
    /\ player.vy = 0
    /\ \E row \in 0 .. ROWS - 2 : player.y = TileY(row) - HALF_TILE

----------------------------------------------------------------------------
\* C31: in src/unnamed/part_000 chargeJumpTime stays between 0 and
\* CHARGE_JUMP_MAX_TIME, so every charge-jump launch has a charge ratio
\* between 0 and 1: vy = -400 - 300 * ratio lies between -700 and -400 and
\* vx = 150 * ratio between 0 and 150.
C31_LaunchBounds ==
    variant = "B" =>
        /\ jump.chargeJumpTime \in 0 .. CHARGE_JUMP_MAX_TIME_MS
        /\ hist.event = "launch" /\ ~isGameOver =>
              /\ hist.chargeMs \in 0 .. CHARGE_JUMP_MAX_TIME_MS
              /\ player.vy = CHARGE_JUMP_MIN_VELOCITY * VEL
                    + ((CHARGE_JUMP_MAX_VELOCITY - CHARGE_JUMP_MIN_VELOCITY) * VEL
                       * hist.chargeMs) \div CHARGE_JUMP_MAX_TIME_MS
              /\ player.vx = (CHARGE_JUMP_HORIZONTAL_VELOCITY * VEL * hist.chargeMs)
                             \div CHARGE_JUMP_MAX_TIME_MS
              /\ player.vy >= CHARGE_JUMP_MAX_VELOCITY * VEL
              /\ player.vy <= CHARGE_JUMP_MIN_VELOCITY * VEL
              /\ player.vx >= 0
              /\ player.vx <= CHARGE_JUMP_HORIZONTAL_VELOCITY * VEL

\* src/unnamed/part_000 has launched after charging for longer than the
\* maximum charge time: the launch is the strongest one
C31_FullLaunch ==
    /\ variant = "B" /\ hist.event = "launch" /\ ~isGameOver
    /\ hist.chargeMs = CHARGE_JUMP_MAX_TIME_MS
    /\ now - hist.holdFrom > HOLD_THRESHOLD_MS + CHARGE_JUMP_MAX_TIME_MS + TickMs
    /\ player.vy = CHARGE_JUMP_MAX_VELOCITY * VEL
    /\ player.vx = CHARGE_JUMP_HORIZONTAL_VELOCITY * VEL

\* C32: the jump charge is recharged, by JUMP_CHARGE_RATE times the elapsed
\* seconds and capped at JUMP_CHARGE_MAX, in the frames in which the player
\* is grounded; it does not grow in a frame in which the player is airborne.
C32_RechargeOnGround ==
    [][ /\ now' # now
        /\ ~isGameOver /\ ~isGameOver'
        => IF player'.isGrounded
           THEN jumpCharge' = Min(JUMP_CHARGE_MAX * CHARGE_UNIT,
                                  hist'.chargeAfter
                                  + (JUMP_CHARGE_RATE * CHARGE_UNIT * (now' - now)) \div 1000)
           ELSE jumpCharge' <= hist'.chargeAfter ]_vars

\* C33: handleCollision of src/game.js moves the player exactly 2 px to the
\* left when, and only when, the session is Running, playerBottom >
\* obstacleTop + 3 and playerRight > obstacleLeft; it ends the game exactly
\* when the x it leaves is below -TILE_SIZE, and changes nothing otherwise;
\* the pushes add up. For a frame, with the tiles the body overlaps after the
\* physics step: the player is pushed if and only if one of them meets the
\* two conditions, by 2 px for each one that meets them as long as it still
\* does after the pushes before it.
C33_SideNudge ==
    [][ variant = "A" /\ ~isGameOver /\ now' # now
        => \E body \in { PhysicsStep(Scene, now' - now).player } :
           \E hit \in { SelectSeq(greenObstacles(columns),
                                  LAMBDA ob : BodiesIntersect(body, ob)) } :
           \E n \in { Cardinality({ i \in DOMAIN hit :
                                      /\ body.y + HALF_TILE > hit[i].y + 3 * PX
                                      /\ body.x + HALF_TILE > hit[i].x }) } :
              /\ body.x = player.x
              /\ (n = 0) <=> (player'.x = player.x)
              /\ player'.x <= player.x
              /\ player'.x >= player.x - 2 * PX * n
              /\ (player.x - player'.x) % (2 * PX) = 0
              /\ /\ \A i \in DOMAIN hit :
                       body.x + HALF_TILE > hit[i].x =>
                           body.x - 2 * PX * n + HALF_TILE > hit[i].x
                 /\ n > 0 => player.x - 2 * PX * (n - 1) >= (0 - TILE_SIZE) * PX
                 => player'.x = player.x - 2 * PX * n
              /\ player'.x < (0 - TILE_SIZE) * PX => isGameOver'
              /\ isGameOver' => \/ player'.x < (0 - TILE_SIZE) * PX
                                \/ player'.y > (SCREEN_HEIGHT + 50) * PX ]_vars

\* src/game.js has pushed the player more than once in a session that is
\* still running
C33_PushedTwice ==
    /\ variant = "A" /\ ~isGameOver
    /\ player.x <= (PLAYER_START_X - 4) * PX
    /\ player.x >= (0 - TILE_SIZE) * PX

\* C34: a session set up by create() and one set up by restartGame() start
\* alike: before the first scroll of a session, the generation fields, and
\* the distance from lastColumnX to the x of the rightmost initial column,
\* are what restartGame() would leave if it were called there.
C34_RestartIsFreshStart ==
    ~isGameOver /\ worldX = 0 /\ hist.n = numColumns =>
        \A s \in restartGame(variant, Scene) :
            /\ s.gen = gen
            /\ s.gen.lastColumnX - s.columns[Len(s.columns)].x
               = gen.lastColumnX - columns[Len(columns)].x

\* C35: between leaving the ground and the next landing the player makes at
\* most one double jump, whatever the jump charge and however often the key
\* is pressed.
C35_NoTripleJump == hist.airJumps <= 1

\* C36: in src/unnamed/part_000 a charge jump starts from the ground: the
\* launch happens only in a frame in which the player is grounded or within
\* the 100 ms grace window, and no frame ends with the player charging in
\* the air beyond the grace window.
C36_ChargeFromGround ==
    variant = "B" /\ ~isGameOver =>
        /\ jump.isChargingJump =>
              player.isGrounded \/ now - jump.lastGroundedTime <= GRACE_MS
        /\ hist.event = "launch" => now - jump.lastGroundedTime <= GRACE_MS

\* C37: column generation never falls behind the scroll: when no frame is
\* longer than TILE_FULL_SIZE / SCROLL_SPEED = 0.125 s, every frame of a
\* running session ends with the rightmost live column at a screen x of at
\* least the screen width.
C37_RightEdgeCovered ==
    ~isGameOver /\ budget.lagged = 0 =>
        \E i \in DOMAIN columns : columns[i].x >= ScreenWidth * PX

\* C38: in src/game.js the player's x starts at PLAYER_START_X and never
\* exceeds it; a step that does not restart the game never increases it and
\* changes it only in a frame of a running session, by a multiple of the
\* 2 px of a push; the step that restarts the game puts it back to
\* PLAYER_START_X.
C38_NoRecovery ==
    [][ variant = "A"
        => /\ player.x <= PLAYER_START_X * PX
           /\ hist.n = numColumns /\ hist.restarts = 0 /\ worldX = 0 /\ now = BootMs
              => player.x = PLAYER_START_X * PX
           /\ IF hist'.restarts # hist.restarts
              THEN isGameOver /\ key.justDown /\ player'.x = PLAYER_START_X * PX
              ELSE /\ player'.x <= player.x
                   /\ (player.x - player'.x) % (2 * PX) = 0
                   /\ player'.x # player.x
                      => ~isGameOver /\ (now' # now \/ budget'.odd # budget.odd) ]_vars

\* src/game.js: a session has ended by a fall with the player pushed left of
\* its starting x but still on the screen, and the key that restarts the game
\* has just gone down
C38_PushedBeforeRestart ==
    /\ variant = "A" /\ isGameOver /\ key.justDown
    /\ player.x < PLAYER_START_X * PX
    /\ player.x >= (0 - TILE_SIZE) * PX
    /\ PlayedMs < budget.playMs

====
